---- MODULE Spec2Model ----
(***************************************************************************)
(* A model of the 2D vector library of src/Vector.js (the module variant,  *)
(* lines 1-549): the numeric sanitizer _clean, the constructor Vector, the *)
(* equality predicate and the operation library.                           *)
(*                                                                         *)
(* Numbers.  A JavaScript number is NaN, +Infinity, -Infinity or a finite  *)
(* value.  A finite value is a sign and a magnitude, the magnitude a       *)
(* natural number counted in units of 10^-20 and written as a sequence of  *)
(* base-10^4 limbs, least significant first (TLC's integers are 32 bits    *)
(* wide).  Sums and differences are exact, products, quotients and square  *)
(* roots are rounded to the nearest unit, and a result above               *)
(* Number.MAX_VALUE is an infinity, as in IEEE 754.  -0 is identified with *)
(* 0.                                                                      *)
(*                                                                         *)
(* Arrays.  A JavaScript array is an object with an identity: heap is the  *)
(* sequence of the arrays that exist, an array's address its index.  Every *)
(* operation takes the heap and the addresses of its arguments and returns *)
(* a completion: normal, with the heap it leaves and its value, or abrupt, *)
(* with the class of the error thrown.                                     *)
(***************************************************************************)
EXTENDS Integers, Sequences, FiniteSets, TLC

VARIABLES heap, last, pc

vars == <<heap, last, pc>>

(***************************************************************************)
(* Natural numbers of any size: sequences of limbs.                        *)
(***************************************************************************)
B == 10^4

FracLimbs == 5

Max2(x, y) == IF x > y THEN x ELSE y

Min2(x, y) == IF x < y THEN x ELSE y

Limb(a, i) == IF i >= 1 /\ i <= Len(a) THEN a[i] ELSE 0

\* Sums over the limbs are split in halves, so that the depth of an
\* evaluation is the logarithm of the length.

\* the highest index in lo..hi of a limb that is not 0, or 0
RECURSIVE TopLimb(_, _, _)
TopLimb(s, lo, hi) ==
  IF lo = hi THEN (IF s[lo] # 0 THEN lo ELSE 0)
  ELSE LET h == TopLimb(s, (lo + hi) \div 2 + 1, hi)
       IN  IF h # 0 THEN h ELSE TopLimb(s, lo, (lo + hi) \div 2)

BStrip(s) ==
  IF s = <<>> THEN s
  ELSE IF s[Len(s)] # 0 THEN s
  ELSE SubSeq(s, 1, TopLimb(s, 1, Len(s)))

RECURSIVE BCmpAt(_, _, _, _)
BCmpAt(a, b, lo, hi) ==
  IF lo = hi THEN (IF a[lo] = b[lo] THEN 0 ELSE IF a[lo] < b[lo] THEN -1 ELSE 1)
  ELSE LET h == BCmpAt(a, b, (lo + hi) \div 2 + 1, hi)
       IN  IF h # 0 THEN h ELSE BCmpAt(a, b, lo, (lo + hi) \div 2)

\* -1, 0 or 1 as a < b, a = b or a > b
BCmp(a, b) ==
  IF Len(a) # Len(b) THEN (IF Len(a) < Len(b) THEN -1 ELSE 1)
  ELSE IF a = <<>> THEN 0
  ELSE BCmpAt(a, b, 1, Len(a))

RECURSIVE BFromNat(_)
BFromNat(n) == IF n = 0 THEN <<>> ELSE <<n % B>> \o BFromNat(n \div B)

\* <<the limbs lo..hi of raw with the carries propagated, the carry out>>
RECURSIVE CarryRange(_, _, _, _)
CarryRange(raw, lo, hi, c) ==
  IF lo = hi THEN <<  <<(raw[lo] + c) % B>>, (raw[lo] + c) \div B  >>
  ELSE LET l == CarryRange(raw, lo, (lo + hi) \div 2, c)
           h == CarryRange(raw, (lo + hi) \div 2 + 1, hi, l[2])
       IN  <<l[1] \o h[1], h[2]>>

BCarry(raw) ==
  IF raw = <<>> THEN raw
  ELSE LET r == CarryRange(raw, 1, Len(raw), 0) IN r[1] \o BFromNat(r[2])

BAdd(a, b) ==
  BCarry([i \in 1..Max2(Len(a), Len(b)) |-> Limb(a, i) + Limb(b, i)])

\* <<the limbs lo..hi of a - b, the borrow out>>
RECURSIVE BBorrow(_, _, _, _, _)
BBorrow(a, b, lo, hi, c) ==
  IF lo = hi
    THEN LET x == a[lo] - Limb(b, lo) - c
         IN  IF x < 0 THEN <<  <<x + B>>, 1  >> ELSE <<  <<x>>, 0  >>
  ELSE LET l == BBorrow(a, b, lo, (lo + hi) \div 2, c)
           h == BBorrow(a, b, (lo + hi) \div 2 + 1, hi, l[2])
       IN  <<l[1] \o h[1], h[2]>>

\* a - b, for a >= b
BSub(a, b) == IF a = <<>> THEN a ELSE BStrip(BBorrow(a, b, 1, Len(a), 0)[1])

\* a * m, for 0 <= m <= 2 * 10^5
BMulSmall(a, m) ==
  IF m = 0 THEN <<>> ELSE BCarry([i \in 1..Len(a) |-> a[i] * m])

\* a * B^k for k >= 0, floor(a / B^k) for k < 0
BShift(a, k) ==
  IF a = <<>> THEN a
  ELSE IF k >= 0 THEN [i \in 1..k |-> 0] \o a
  ELSE IF -k >= Len(a) THEN <<>> ELSE SubSeq(a, 1 - k, Len(a))

RECURSIVE SumProd(_, _, _, _, _)
SumProd(a, b, k, i, hi) ==
  IF i > hi THEN 0 ELSE a[i] * b[k + 1 - i] + SumProd(a, b, k, i + 1, hi)

\* b times the limbs lo..hi of a
RECURSIVE BMulLong(_, _, _, _)
BMulLong(a, b, lo, hi) ==
  IF lo = hi THEN BMulSmall(b, a[lo])
  ELSE BAdd(BMulLong(a, b, lo, (lo + hi) \div 2),
            BShift(BMulLong(a, b, (lo + hi) \div 2 + 1, hi), (lo + hi) \div 2 + 1 - lo))

\* a * b: the columns are summed before the carries while a column's sum
\* fits 32 bits (at most 21 products), limb by limb otherwise
BMul(a, b) ==
  IF a = <<>> \/ b = <<>> THEN <<>>
  ELSE IF Min2(Len(a), Len(b)) <= 21
    THEN BStrip(BCarry([k \in 1..(Len(a) + Len(b) - 1) |->
            SumProd(a, b, k, Max2(1, k + 1 - Len(b)), Min2(k, Len(a)))]))
    ELSE BStrip(BMulLong(a, b, 1, Len(a)))

Reverse(s) == [i \in 1..Len(s) |-> s[Len(s) + 1 - i]]

\* <<the limbs hi..lo of floor(a / m), highest first, the remainder>>, r the
\* remainder of the limbs above hi
RECURSIVE BDivSmallAt(_, _, _, _, _)
BDivSmallAt(a, m, lo, hi, r) ==
  IF lo = hi THEN <<  <<(r * B + a[lo]) \div m>>, (r * B + a[lo]) % m  >>
  ELSE LET h == BDivSmallAt(a, m, (lo + hi) \div 2 + 1, hi, r)
           l == BDivSmallAt(a, m, lo, (lo + hi) \div 2, h[2])
       IN  <<h[1] \o l[1], l[2]>>

\* floor(a / m), for 0 < m < B
BDivSmall(a, m) ==
  IF a = <<>> THEN a ELSE BStrip(Reverse(BDivSmallAt(a, m, 1, Len(a), 0)[1]))

RECURSIVE BFit(_, _, _)
BFit(r, b, d) ==
  IF d = 0 THEN 0
  ELSE IF BCmp(BMulSmall(b, d), r) <= 0 THEN d ELSE BFit(r, b, d - 1)

\* <<the limbs hi..lo of floor(a / b), highest first, the remainder>>.  One
\* step of the long division: the remainder r of the limbs above takes the
\* limb a[lo], and the quotient limb is estimated from the leading limbs and
\* corrected downwards.
RECURSIVE BDivAt(_, _, _, _, _)
BDivAt(a, b, lo, hi, r) ==
  IF lo = hi
    THEN LET r1 == BStrip(<<a[lo]>> \o r)
             est == Min2((Limb(r1, Len(b) + 1) * B + Limb(r1, Len(b))) \div b[Len(b)], B - 1)
             d == BFit(r1, b, est)
         IN  <<  <<d>>, BSub(r1, BMulSmall(b, d))  >>
  ELSE LET h == BDivAt(a, b, (lo + hi) \div 2 + 1, hi, r)
           l == BDivAt(a, b, lo, (lo + hi) \div 2, h[2])
       IN  <<h[1] \o l[1], l[2]>>

\* floor(a / b), for b > 0
BDiv(a, b) ==
  IF a = <<>> THEN a
  ELSE IF Len(b) = 1 THEN BDivSmall(a, b[1])
  ELSE LET f == B \div (b[Len(b)] + 1)
           af == BMulSmall(a, f)
       IN  BStrip(Reverse(BDivAt(af, BMulSmall(b, f), 1, Len(af), <<>>)[1]))

RECURSIVE ISqrtIn(_, _, _)
ISqrtIn(n, lo, hi) ==
  IF lo >= hi THEN lo
  ELSE LET mid == (lo + hi + 1) \div 2
       IN  IF mid * mid <= n THEN ISqrtIn(n, mid, hi) ELSE ISqrtIn(n, lo, mid - 1)

\* floor(sqrt(a)) by Newton's iteration from a start x above the root
RECURSIVE BSqrtFrom(_, _)
BSqrtFrom(a, x) ==
  LET y == BDivSmall(BAdd(x, BDiv(a, x)), 2)
  IN  IF BCmp(y, x) >= 0 THEN x ELSE BSqrtFrom(a, y)

(***************************************************************************)
(* JavaScript numbers.                                                     *)
(***************************************************************************)
NaN == [k |-> "nan", neg |-> FALSE, mag |-> <<>>]

Inf(neg) == [k |-> "inf", neg |-> neg, mag |-> <<>>]

Fin(neg, mag) == [k |-> "fin", neg |-> (neg /\ mag # <<>>), mag |-> mag]

\* Number.MAX_VALUE, 1.7976931348623157e308
MaxMag == BShift(<<3157, 4862, 9313, 7976, 1>>, 73 + FracLimbs)

\* the value of an operation whose exact result has this sign and magnitude
Double(neg, mag) ==
  IF Len(mag) >= Len(MaxMag) /\ BCmp(mag, MaxMag) > 0 THEN Inf(neg) ELSE Fin(neg, mag)

FromInt(n) ==
  IF n < 0 THEN Fin(TRUE, BShift(BFromNat(-n), FracLimbs))
           ELSE Fin(FALSE, BShift(BFromNat(n), FracLimbs))

Zero == FromInt(0)

One == FromInt(1)

Two == FromInt(2)

isNaN(x) == x.k = "nan"

isFinite(x) == x.k = "fin"

IsZero(x) == x.k = "fin" /\ x.mag = <<>>

NumNeg(a) == IF a.k = "nan" THEN a ELSE IF a.k = "inf" THEN Inf(~a.neg) ELSE Fin(~a.neg, a.mag)

MathAbs(a) == IF a.k = "nan" THEN a ELSE [a EXCEPT !.neg = FALSE]

NumAdd(a, b) ==
  IF a.k = "nan" \/ b.k = "nan" THEN NaN
  ELSE IF a.k = "inf" THEN (IF b.k = "inf" /\ b.neg # a.neg THEN NaN ELSE a)
  ELSE IF b.k = "inf" THEN b
  ELSE IF a.neg = b.neg THEN Double(a.neg, BAdd(a.mag, b.mag))
  ELSE IF BCmp(a.mag, b.mag) >= 0 THEN Fin(a.neg, BSub(a.mag, b.mag))
  ELSE Fin(b.neg, BSub(b.mag, a.mag))

NumSub(a, b) == NumAdd(a, NumNeg(b))

HalfUnit == BShift(<<B \div 2>>, FracLimbs - 1)

NumMul(a, b) ==
  IF a.k = "nan" \/ b.k = "nan" THEN NaN
  ELSE IF a.k = "inf" \/ b.k = "inf"
    THEN (IF IsZero(a) \/ IsZero(b) THEN NaN ELSE Inf(a.neg # b.neg))
  ELSE IF a.mag = <<>> \/ b.mag = <<>> THEN Zero
  ELSE IF Len(a.mag) + Len(b.mag) - 1 - FracLimbs > Len(MaxMag) THEN Inf(a.neg # b.neg)
  ELSE Double(a.neg # b.neg, BShift(BAdd(BMul(a.mag, b.mag), HalfUnit), -FracLimbs))

NumDiv(a, b) ==
  IF a.k = "nan" \/ b.k = "nan" THEN NaN
  ELSE IF a.k = "inf" THEN (IF b.k = "inf" THEN NaN ELSE Inf(a.neg # b.neg))
  ELSE IF b.k = "inf" THEN Zero
  ELSE IF b.mag = <<>> THEN (IF a.mag = <<>> THEN NaN ELSE Inf(a.neg # b.neg))
  ELSE Double(a.neg # b.neg,
              BDiv(BAdd(BMulSmall(BShift(a.mag, FracLimbs), 2), b.mag), BMulSmall(b.mag, 2)))

\* a < b, a > b and a == b of JavaScript: false when an operand is NaN
NumLt(a, b) ==
  IF a.k = "nan" \/ b.k = "nan" THEN FALSE
  ELSE IF a = b THEN FALSE
  ELSE IF a.neg # b.neg THEN a.neg
  ELSE IF a.k = "inf" THEN a.neg
  ELSE IF b.k = "inf" THEN ~b.neg
  ELSE IF a.neg THEN BCmp(a.mag, b.mag) > 0 ELSE BCmp(a.mag, b.mag) < 0

NumGt(a, b) == NumLt(b, a)

NumEq(a, b) == a.k # "nan" /\ b.k # "nan" /\ a = b

\* Math.round: the nearest integer, a half rounded towards +Infinity
MathRound(a) ==
  IF a.k # "fin" THEN a
  ELSE IF a.neg
    THEN Fin(TRUE, BShift(BShift(BSub(BAdd(a.mag, HalfUnit), <<1>>), -FracLimbs), FracLimbs))
    ELSE Fin(FALSE, BShift(BShift(BAdd(a.mag, HalfUnit), -FracLimbs), FracLimbs))

\* Math.sqrt, rounded to the nearest unit
MathSqrt(a) ==
  IF a.k = "nan" THEN NaN
  ELSE IF a.neg THEN NaN
  ELSE IF a.k = "inf" THEN a
  ELSE IF a.mag = <<>> THEN a
  ELSE LET n == BShift(a.mag, FracLimbs)
           e == IF Len(n) % 2 = 1 THEN Len(n) - 1 ELSE Len(n) - 2
           top == IF Len(n) % 2 = 1 THEN n[Len(n)] ELSE n[Len(n)] * B + n[Len(n) - 1]
           r == BSqrtFrom(n, BShift(BCarry(<<ISqrtIn(top, 0, B) + 1>>), e \div 2))
       IN  IF BCmp(BSub(n, BMul(r, r)), r) > 0 THEN Fin(FALSE, BAdd(r, <<1>>))
                                                ELSE Fin(FALSE, r)

\* Math.pow(x, n) for a natural exponent n
RECURSIVE MathPow(_, _)
MathPow(x, n) == IF n = 0 THEN One ELSE NumMul(x, MathPow(x, n - 1))

\* the rounded product and quotient of two magnitudes
FMul(a, b) == BShift(BAdd(BMul(a, b), HalfUnit), -FracLimbs)

FDiv(a, b) == BDiv(BAdd(BMulSmall(BShift(a, FracLimbs), 2), b), BMulSmall(b, 2))

OneMag == BShift(<<1>>, FracLimbs)

\* Math.PI, to 20 decimals
PiMag == <<3846, 7932, 3589, 9265, 1415, 3>>

MathPI == Fin(FALSE, PiMag)

\* the terms t, t*x2/((n+1)(n+2)), ... of a Taylor series, summed by sign:
\* <<sum of the terms added, sum of the terms subtracted>>
RECURSIVE Taylor(_, _, _, _)
Taylor(term, x2, n, plus) ==
  IF term = <<>> THEN << <<>>, <<>> >>
  ELSE LET rest == Taylor(BDivSmall(FMul(term, x2), (n + 1) * (n + 2)), x2, n + 2, ~plus)
       IN  IF plus THEN <<BAdd(term, rest[1]), rest[2]>>
                   ELSE <<rest[1], BAdd(term, rest[2])>>

\* sin and cos of a magnitude r <= pi/4
SinSmall(r) == LET t == Taylor(r, FMul(r, r), 1, TRUE) IN BSub(t[1], t[2])

CosSmall(r) == LET t == Taylor(OneMag, FMul(r, r), 0, TRUE) IN BSub(t[1], t[2])

\* sin and cos of a magnitude r <= pi/2
SinQuarter(r) ==
  IF BCmp(r, BDivSmall(PiMag, 4)) <= 0 THEN SinSmall(r)
  ELSE CosSmall(BSub(BDivSmall(PiMag, 2), r))

CosQuarter(r) ==
  IF BCmp(r, BDivSmall(PiMag, 4)) <= 0 THEN CosSmall(r)
  ELSE SinSmall(BSub(BDivSmall(PiMag, 2), r))

\* r mod 2*pi, and the quarter turn of it (0..3) with the rest
Mod2Pi(r) == LET tau == BMulSmall(PiMag, 2) IN BSub(r, BMul(BDiv(r, tau), tau))

Quadrant(r) == BDiv(r, BDivSmall(PiMag, 2))

InQuadrant(r) == BSub(r, BMul(Quadrant(r), BDivSmall(PiMag, 2)))

QuadrantNo(r) == IF Quadrant(r) = <<>> THEN 0 ELSE Quadrant(r)[1]

MathSin(x) ==
  IF x.k # "fin" THEN NaN
  ELSE LET r == Mod2Pi(x.mag)
           q == QuadrantNo(r)
           t == InQuadrant(r)
           m == IF q % 2 = 0 THEN SinQuarter(t) ELSE CosQuarter(t)
       IN  Fin(x.neg # (q >= 2), m)

MathCos(x) ==
  IF x.k # "fin" THEN NaN
  ELSE LET r == Mod2Pi(x.mag)
           q == QuadrantNo(r)
           t == InQuadrant(r)
           m == IF q % 2 = 0 THEN CosQuarter(t) ELSE SinQuarter(t)
       IN  Fin(q = 1 \/ q = 2, m)

\* the terms p/n, p*z2/(n+2), ... of the arctangent series, summed by sign
RECURSIVE AtanSeries(_, _, _, _)
AtanSeries(p, z2, n, plus) ==
  IF p = <<>> THEN << <<>>, <<>> >>
  ELSE LET rest == AtanSeries(FMul(p, z2), z2, n + 2, ~plus)
           term == BDivSmall(p, n)
       IN  IF plus THEN <<BAdd(term, rest[1]), rest[2]>>
                   ELSE <<rest[1], BAdd(term, rest[2])>>

\* atan(z) = 2 atan(z / (1 + sqrt(1 + z^2)))
AtanHalve(z) ==
  IF z = <<>> THEN z
  ELSE FDiv(z, BAdd(OneMag, MathSqrt(Fin(FALSE, BAdd(OneMag, FMul(z, z)))).mag))

\* the arctangent of a magnitude z <= 1
AtanUnit(z) ==
  LET w == AtanHalve(AtanHalve(z))
      t == AtanSeries(w, FMul(w, w), 1, TRUE)
  IN  IF w = <<>> THEN w ELSE BMulSmall(BSub(t[1], t[2]), 4)

MathAtan(x) ==
  IF x.k = "nan" THEN NaN
  ELSE IF x.k = "inf" THEN Fin(x.neg, BDivSmall(PiMag, 2))
  ELSE IF BCmp(x.mag, OneMag) <= 0 THEN Fin(x.neg, AtanUnit(x.mag))
  ELSE Fin(x.neg, BSub(BDivSmall(PiMag, 2), AtanUnit(FDiv(OneMag, x.mag))))

(***************************************************************************)
(* Completions, values and the heap.                                       *)
(***************************************************************************)
Undefined == [k |-> "undefined"]

Ref(addr) == [k |-> "ref", addr |-> addr]

Bool(b) == [k |-> "bool", b |-> b]

Obj(x, y) == [k |-> "obj", x |-> x, y |-> y]

Normal(h, v) == [tag |-> "ok", heap |-> h, val |-> v]

Throw(h, cls) == [tag |-> cls, heap |-> h, val |-> Undefined]

\* throw new cls(...): the error classes bound in the scope of the module are
\* those of the language, and an identifier that is not bound throws a
\* ReferenceError
ThrowNew(h, cls) ==
  IF cls \in {"Error", "RangeError", "ReferenceError", "TypeError", "SyntaxError", "EvalError", "URIError"}
    THEN Throw(h, cls)
    ELSE Throw(h, "ReferenceError")

\* the array literal [c1, c2] of two completions, evaluated left to right
ArrayLiteral(h, c1, c2) ==
  IF c1.tag # "ok" THEN Throw(h, c1.tag)
  ELSE IF c2.tag # "ok" THEN Throw(h, c2.tag)
  ELSE Normal(Append(h, <<c1.val, c2.val>>), Ref(Len(h) + 1))

ArrayIsArray(x) == x.k = "ref"

hasOwnProperty(x, p) == x.k = "obj"

(***************************************************************************)
(* IEEE 754 doubles bit for bit: m * 2^e with 2^52 <= m < 2^53, or 0.      *)
(* The numbers above keep 20 decimal places, which is exact for sums and   *)
(* differences of the decimal inputs; the comparison of two cleaned values *)
(* in _almostEqual turns on the last bit of the doubles, and is computed   *)
(* here as the machine computes it.  The values stay in the normal range.  *)
(***************************************************************************)
RECURSIVE Pow2(_)
Pow2(k) ==
  IF k = 0 THEN <<1>>
  ELSE IF k % 2 = 0 THEN LET h == Pow2(k \div 2) IN BMul(h, h)
  ELSE BMulSmall(Pow2(k - 1), 2)

\* the number of bits of m > 0, counted up from k
RECURSIVE BitLen(_, _)
BitLen(m, k) == IF BCmp(m, Pow2(k)) < 0 THEN k ELSE BitLen(m, k + 1)

\* the double nearest to m * 2^e, a tie going to the even mantissa
Nearest64(neg, m, e) ==
  IF m = <<>> THEN [k |-> "fin", neg |-> FALSE, m |-> <<>>, e |-> 0]
  ELSE LET n == BitLen(m, 13 * (Len(m) - 1))
           s == n - 53
           q == BDiv(m, Pow2(s))
           c == BCmp(BSub(m, BMul(q, Pow2(s))), Pow2(s - 1))
           q1 == IF c > 0 \/ (c = 0 /\ q[1] % 2 = 1) THEN BAdd(q, <<1>>) ELSE q
       IN  IF s <= 0 THEN [k |-> "fin", neg |-> neg, m |-> BMul(m, Pow2(-s)), e |-> e + s]
           ELSE IF q1 = Pow2(53) THEN [k |-> "fin", neg |-> neg, m |-> Pow2(52), e |-> e + s + 1]
           ELSE [k |-> "fin", neg |-> neg, m |-> q1, e |-> e + s]

Mul64(a, b) == Nearest64(a.neg # b.neg, BMul(a.m, b.m), a.e + b.e)

\* a / b for b # 0: the quotient to 56 bits and more, and a last bit for a
\* remainder
Div64(a, b) ==
  LET n == BMul(a.m, Pow2(56))
      q == BDiv(n, b.m)
      q2 == IF BSub(n, BMul(q, b.m)) = <<>> THEN BMulSmall(q, 2)
                                            ELSE BAdd(BMulSmall(q, 2), <<1>>)
  IN  Nearest64(a.neg # b.neg, q2, a.e - b.e - 57)

Sub64(a, b) ==
  IF b.m = <<>> THEN a
  ELSE IF a.m = <<>> THEN [b EXCEPT !.neg = ~b.neg]
  ELSE LET e == Min2(a.e, b.e)
           x == BMul(a.m, Pow2(a.e - e))
           y == BMul(b.m, Pow2(b.e - e))
       IN  IF a.neg # b.neg THEN Nearest64(a.neg, BAdd(x, y), e)
           ELSE IF BCmp(x, y) >= 0 THEN Nearest64(a.neg, BSub(x, y), e)
           ELSE Nearest64(~a.neg, BSub(y, x), e)

\* Math.round: the nearest integer, a half rounded towards +Infinity
MathRound64(a) ==
  IF a.m = <<>> \/ a.e >= 0 THEN a
  ELSE LET h == Pow2(-a.e - 1)
       IN  IF a.neg THEN Nearest64(TRUE, BDiv(BSub(BAdd(a.m, h), <<1>>), Pow2(-a.e)), 0)
                    ELSE Nearest64(FALSE, BDiv(BAdd(a.m, h), Pow2(-a.e)), 0)

\* the double a decimal literal of nine places denotes: int + nano * 10^-9
Dec64(neg, int, nano) ==
  Div64(Nearest64(neg, BAdd(BMul(BFromNat(int), BFromNat(10^9)), BFromNat(nano)), 0),
        Nearest64(FALSE, BFromNat(10^9), 0))

(***************************************************************************)
(* src/Vector.js                                                           *)
(***************************************************************************)
_p == 8

Precision == NumDiv(One, MathPow(FromInt(10), _p))

\* _clean with the test for the infinities left out
_cleanNaNOnly(num) ==
  IF isNaN(num) THEN [tag |-> "RangeError", val |-> Undefined]
  ELSE IF NumEq(MathRound(num), num) THEN [tag |-> "ok", val |-> num]
  ELSE [tag |-> "ok", val |-> NumMul(MathRound(NumDiv(num, Precision)), Precision)]

\* Math.floor: the integer below
MathFloor(a) == MathRound(NumSub(a, NumDiv(One, Two)))

\* _clean with Math.floor in the place of the second Math.round
_cleanFloor(num) ==
  IF isNaN(num) THEN [tag |-> "RangeError", val |-> Undefined]
  ELSE IF ~isFinite(num) THEN [tag |-> "RangeError", val |-> Undefined]
  ELSE IF NumEq(MathRound(num), num) THEN [tag |-> "ok", val |-> num]
  ELSE [tag |-> "ok", val |-> NumMul(MathFloor(NumDiv(num, Precision)), Precision)]

_clean(num) ==
  IF isNaN(num) THEN [tag |-> "RangeError", val |-> Undefined]
  ELSE IF ~isFinite(num) THEN [tag |-> "RangeError", val |-> Undefined]
  ELSE IF NumEq(MathRound(num), num) THEN [tag |-> "ok", val |-> num]
  ELSE [tag |-> "ok", val |-> NumMul(MathRound(NumDiv(num, Precision)), Precision)]

\* Vector with the object's x read for both components
VectorObjectX(h, x, y) ==
  IF ArrayIsArray(x)
    THEN IF Len(h[x.addr]) = 2
           THEN ArrayLiteral(h, _clean(h[x.addr][1]), _clean(h[x.addr][2]))
           ELSE ThrowNew(h, "ValueError")
  ELSE IF hasOwnProperty(x, "x") /\ hasOwnProperty(x, "y")
    THEN ArrayLiteral(h, _clean(x.x), _clean(x.x))
  ELSE ArrayLiteral(h, _clean(x), _clean(y))

Vector(h, x, y) ==
  IF ArrayIsArray(x)
    THEN IF Len(h[x.addr]) = 2
           THEN ArrayLiteral(h, _clean(h[x.addr][1]), _clean(h[x.addr][2]))
           ELSE ThrowNew(h, "ValueError")
  ELSE IF hasOwnProperty(x, "x") /\ hasOwnProperty(x, "y")
    THEN ArrayLiteral(h, _clean(x.x), _clean(x.y))
  ELSE ArrayLiteral(h, _clean(x), _clean(y))

_almostEqual(a, b) ==
  LET ca == _clean(a)
      cb == _clean(b)
  IN  IF ca.tag # "ok" THEN ca
      ELSE IF cb.tag # "ok" THEN cb
      ELSE [tag |-> "ok", val |-> Bool(NumLt(MathAbs(NumSub(ca.val, cb.val)), Precision))]

\* equals with the first component of a compared with the second of b
equalsCrossed(h, a, b) ==
  LET e0 == _almostEqual(h[a][1], h[b][2])
      e1 == _almostEqual(h[a][2], h[b][2])
  IN  IF e0.tag # "ok" THEN Throw(h, e0.tag)
      ELSE IF ~e0.val.b THEN Normal(h, e0.val)
      ELSE IF e1.tag # "ok" THEN Throw(h, e1.tag)
      ELSE Normal(h, e1.val)

equals(h, a, b) ==
  LET e0 == _almostEqual(h[a][1], h[b][1])
      e1 == _almostEqual(h[a][2], h[b][2])
  IN  IF e0.tag # "ok" THEN Throw(h, e0.tag)
      ELSE IF ~e0.val.b THEN Normal(h, e0.val)
      ELSE IF e1.tag # "ok" THEN Throw(h, e1.tag)
      ELSE Normal(h, e1.val)

\* The class of src/Vector.js and the module of src/test.js set
\* Precision = Math.pow(10, _p), multiply and then divide by it in _clean,
\* and compare without Math.abs.
PrecisionPow == MathPow(FromInt(10), _p)

_cleanPow(num) ==
  IF isNaN(num) THEN [tag |-> "RangeError", val |-> Undefined]
  ELSE IF ~isFinite(num) THEN [tag |-> "RangeError", val |-> Undefined]
  ELSE IF NumEq(MathRound(num), num) THEN [tag |-> "ok", val |-> num]
  ELSE [tag |-> "ok", val |-> NumDiv(MathRound(NumMul(num, PrecisionPow)), PrecisionPow)]

_almostEqualPow(a, b) ==
  LET ca == _cleanPow(a)
      cb == _cleanPow(b)
  IN  IF ca.tag # "ok" THEN ca
      ELSE IF cb.tag # "ok" THEN cb
      ELSE [tag |-> "ok", val |-> Bool(NumLt(NumSub(ca.val, cb.val), PrecisionPow))]

\* static equals of the class
equalsStatic(h, a, b) ==
  LET e0 == _almostEqualPow(h[a][1], h[b][1])
      e1 == _almostEqualPow(h[a][1], h[b][2])
  IN  IF e0.tag # "ok" THEN Throw(h, e0.tag)
      ELSE IF ~e0.val.b THEN Normal(h, e0.val)
      ELSE IF e1.tag # "ok" THEN Throw(h, e1.tag)
      ELSE Normal(h, e1.val)

\* equals of the module in src/test.js
equalsEarlier(h, a, b) ==
  LET e0 == _almostEqualPow(h[a][1], h[a][2])
      e1 == _almostEqualPow(h[b][1], h[b][2])
  IN  IF e0.tag # "ok" THEN Throw(h, e0.tag)
      ELSE IF ~e0.val.b THEN Normal(h, e0.val)
      ELSE IF e1.tag # "ok" THEN Throw(h, e1.tag)
      ELSE Normal(h, e1.val)

\* Precision, _clean, _almostEqual and equals on doubles
Precision64 == Div64(Nearest64(FALSE, <<1>>, 0), Nearest64(FALSE, BFromNat(10^_p), 0))

_clean64(num) ==
  IF isNaN(num) THEN [tag |-> "RangeError", val |-> Undefined]
  ELSE IF ~isFinite(num) THEN [tag |-> "RangeError", val |-> Undefined]
  ELSE IF MathRound64(num) = num THEN [tag |-> "ok", val |-> num]
  ELSE [tag |-> "ok", val |-> Mul64(MathRound64(Div64(num, Precision64)), Precision64)]

_almostEqual64(a, b) ==
  LET ca == _clean64(a)
      cb == _clean64(b)
  IN  IF ca.tag # "ok" THEN ca
      ELSE IF cb.tag # "ok" THEN cb
      ELSE [tag |-> "ok",
            val |-> Bool(Sub64(MathAbs(Sub64(ca.val, cb.val)), Precision64).neg)]

equals64(h, a, b) ==
  LET e0 == _almostEqual64(h[a][1], h[b][1])
      e1 == _almostEqual64(h[a][2], h[b][2])
  IN  IF e0.tag # "ok" THEN Throw(h, e0.tag)
      ELSE IF ~e0.val.b THEN Normal(h, e0.val)
      ELSE IF e1.tag # "ok" THEN Throw(h, e1.tag)
      ELSE Normal(h, e1.val)

\* copy answering its argument
copySame(h, vec) == Normal(h, Ref(vec))

copy(h, vec) == Vector(h, Ref(vec), Undefined)

magSquared(h, vec) == NumAdd(MathPow(h[vec][1], 2), MathPow(h[vec][2], 2))

magnitude(h, vec) == MathSqrt(magSquared(h, vec))

\* add accumulating into its first argument
addInPlace(h, a, b) ==
  Normal([h EXCEPT ![a] = <<NumAdd(h[a][1], h[b][1]), NumAdd(h[a][2], h[b][2])>>], Ref(a))

add(h, a, b) == Vector(h, NumAdd(h[a][1], h[b][1]), NumAdd(h[a][2], h[b][2]))

\* subtract taking a from b
subtractSwapped(h, a, b) == Vector(h, NumSub(h[b][1], h[a][1]), NumSub(h[b][2], h[a][2]))

subtract(h, a, b) == Vector(h, NumSub(h[a][1], h[b][1]), NumSub(h[a][2], h[b][2]))

multiply(h, vec, scalar) == Vector(h, NumMul(h[vec][1], scalar), NumMul(h[vec][2], scalar))

\* divide answering the zero vector for a zero divisor
divideGuarded(h, vec, scalar) ==
  IF NumEq(scalar, Zero) THEN Normal(Append(h, <<Zero, Zero>>), Ref(Len(h) + 1))
  ELSE Vector(h, NumDiv(h[vec][1], scalar), NumDiv(h[vec][2], scalar))

divide(h, vec, scalar) == Vector(h, NumDiv(h[vec][1], scalar), NumDiv(h[vec][2], scalar))

zero(h) == Normal(Append(h, <<Zero, Zero>>), Ref(Len(h) + 1))

\* up answering the array the caller got last
upShared(h) ==
  IF h = <<>> THEN Normal(Append(h, <<Zero, One>>), Ref(Len(h) + 1)) ELSE Normal(h, Ref(Len(h)))

up(h) == Normal(Append(h, <<Zero, One>>), Ref(Len(h) + 1))

down(h) == Normal(Append(h, <<Zero, FromInt(-1)>>), Ref(Len(h) + 1))

left(h) == Normal(Append(h, <<FromInt(-1), Zero>>), Ref(Len(h) + 1))

right(h) == Normal(Append(h, <<One, Zero>>), Ref(Len(h) + 1))

\* normalize answering its argument for the zero vector
normalizeSame(h, vec) ==
  LET mag == magnitude(h, vec)
  IN  IF NumGt(mag, Zero) THEN divide(h, vec, magnitude(h, vec)) ELSE Normal(h, Ref(vec))

normalize(h, vec) ==
  LET mag == magnitude(h, vec)
  IN  IF NumGt(mag, Zero) THEN divide(h, vec, magnitude(h, vec)) ELSE zero(h)

NumGe(a, b) == NumGt(a, b) \/ NumEq(a, b)

Three == FromInt(3)

angle(h, vec) ==
  LET x == h[vec][1]
      y == h[vec][2]
      at == MathAtan(NumDiv(y, x))
  IN  IF NumEq(x, Zero)
        THEN IF NumEq(y, Zero) THEN Zero
             ELSE IF NumGt(y, Zero) THEN NumDiv(MathPI, Two)
             ELSE NumDiv(NumMul(Three, MathPI), Two)
      ELSE IF NumEq(y, Zero)
        THEN IF NumGe(x, Zero) THEN Zero ELSE MathPI
      ELSE IF NumLt(x, Zero) /\ NumLt(y, Zero) THEN NumAdd(at, MathPI)
      ELSE IF NumLt(x, Zero) THEN NumAdd(at, MathPI)
      ELSE IF NumLt(y, Zero) THEN NumAdd(at, NumMul(Two, MathPI))
      ELSE at

Polar(h, radius, theta) ==
  Vector(h, NumMul(radius, MathCos(theta)), NumMul(radius, MathSin(theta)))

clamp(h, vec, limit) ==
  IF NumGt(magnitude(h, vec), limit) THEN Polar(h, limit, angle(h, vec))
  ELSE Normal(h, Ref(vec))

\* rotate turning the other way, as the rotation tests expect
rotateClockwise(h, vec, around, theta) ==
  LET norm_x == NumSub(h[vec][1], h[around][1])
      norm_y == NumSub(h[vec][2], h[around][2])
      x_rotated == NumAdd(NumMul(norm_x, MathCos(theta)), NumMul(norm_y, MathSin(theta)))
      y_rotated == NumSub(NumMul(norm_y, MathCos(theta)), NumMul(norm_x, MathSin(theta)))
  IN  Vector(h, NumAdd(x_rotated, h[around][1]), NumAdd(y_rotated, h[around][2]))

rotate(h, vec, around, theta) ==
  LET norm_x == NumSub(h[vec][1], h[around][1])
      norm_y == NumSub(h[vec][2], h[around][2])
      x_rotated == NumSub(NumMul(norm_x, MathCos(theta)), NumMul(norm_y, MathSin(theta)))
      y_rotated == NumAdd(NumMul(norm_x, MathSin(theta)), NumMul(norm_y, MathCos(theta)))
      x_denormalized == NumAdd(x_rotated, h[around][1])
      y_denormalized == NumAdd(y_rotated, h[around][2])
  IN  Vector(h, x_denormalized, y_denormalized)

offset(h, vec, mag, theta) ==
  LET p == Polar(h, mag, theta)
  IN  IF p.tag # "ok" THEN p ELSE add(p.heap, vec, p.val.addr)

\* Vector([-vec[0], -vec[1]]): the array literal is an array of its own
inverse(h, vec) ==
  LET h1 == Append(h, <<NumNeg(h[vec][1]), NumNeg(h[vec][2])>>)
  IN  Vector(h1, Ref(Len(h1)), Undefined)

\* dot of the first components only
dotOfFirst(h, a, b) == NumMul(h[a][1], h[b][1])

dot(h, a, b) == NumAdd(NumMul(h[a][1], h[b][1]), NumMul(h[a][2], h[b][2]))

\* cross with the terms the other way round
crossNegated(h, a, b) == NumSub(NumMul(h[a][2], h[b][1]), NumMul(h[a][1], h[b][2]))

cross(h, a, b) == NumSub(NumMul(h[a][1], h[b][2]), NumMul(h[a][2], h[b][1]))

RECURSIVE avgLoop(_, _, _, _)
avgLoop(h, average, vectors, i) ==
  IF i > Len(h[vectors]) THEN Normal(h, Ref(average))
  ELSE LET s == add(h, average, h[vectors][i].addr)
       IN  IF s.tag # "ok" THEN s ELSE avgLoop(s.heap, s.val.addr, vectors, i + 1)

\* avg answering the zero vector for the empty list
avgGuarded(h, vectors) ==
  LET z == zero(h)
      sum == avgLoop(z.heap, z.val.addr, vectors, 1)
  IN  IF sum.tag # "ok" \/ Len(h[vectors]) = 0 THEN sum
      ELSE divide(sum.heap, sum.val.addr, FromInt(Len(h[vectors])))

avg(h, vectors) ==
  LET z == zero(h)
      sum == avgLoop(z.heap, z.val.addr, vectors, 1)
  IN  IF sum.tag # "ok" THEN sum
      ELSE divide(sum.heap, sum.val.addr, FromInt(Len(h[vectors])))

midpoint(h, a, b) ==
  LET s == add(h, a, b)
  IN  IF s.tag # "ok" THEN s ELSE divide(s.heap, s.val.addr, Two)

\* proj scaling the vector projected instead of the one projected onto
projOfFirst(h, a, b) ==
  multiply(h, a, NumDiv(dot(h, a, b), MathPow(magnitude(h, b), 2)))

proj(h, a, b) ==
  multiply(h, b, NumDiv(dot(h, a, b), MathPow(magnitude(h, b), 2)))

\* Math.acos: NaN outside [-1, 1], and 2 atan(sqrt((1 - x) / (1 + x))) inside
MathAcos(x) ==
  IF isNaN(x) \/ NumGt(MathAbs(x), One) THEN NaN
  ELSE IF NumEq(x, FromInt(-1)) THEN MathPI
  ELSE NumMul(Two, MathAtan(MathSqrt(NumDiv(NumSub(One, x), NumAdd(One, x)))))

\* angleBetween raising the error of an invalid number for a NaN
angleBetweenChecked(h, a, b) ==
  LET r == MathAcos(NumDiv(dot(h, a, b), NumMul(magnitude(h, a), magnitude(h, b))))
  IN  IF isNaN(r) THEN Throw(h, "RangeError") ELSE Normal(h, r)

angleBetween(h, a, b) ==
  Normal(h, MathAcos(NumDiv(dot(h, a, b), NumMul(magnitude(h, a), magnitude(h, b)))))

distSquared(h, a, b) ==
  LET dx == NumSub(h[a][1], h[b][1])
      dy == NumSub(h[a][2], h[b][2])
  IN  NumAdd(NumMul(dx, dx), NumMul(dy, dy))

\* distToSegSquared measuring to the line through v and w: t is not clamped
distToLineSquared(h, p, v, w) ==
  LET l == distSquared(h, v, w)
      wx == NumSub(h[w][1], h[v][1])
      wy == NumSub(h[w][2], h[v][2])
      t == NumDiv(NumAdd(NumMul(NumSub(h[p][1], h[v][1]), wx),
                         NumMul(NumSub(h[p][2], h[v][2]), wy)), l)
      c == Vector(h, NumAdd(h[v][1], NumMul(t, wx)), NumAdd(h[v][2], NumMul(t, wy)))
  IN  IF NumEq(l, Zero) THEN Normal(h, distSquared(h, p, v))
      ELSE IF c.tag # "ok" THEN c
      ELSE Normal(c.heap, distSquared(c.heap, p, c.val.addr))

\* Math.max and Math.min of two numbers are NaN if either is NaN
distToSegSquared(h, p, v, w) ==
  LET MathMax(a, b) == IF isNaN(a) \/ isNaN(b) THEN NaN ELSE IF NumLt(a, b) THEN b ELSE a
      MathMin(a, b) == IF isNaN(a) \/ isNaN(b) THEN NaN ELSE IF NumLt(b, a) THEN b ELSE a
      l == distSquared(h, v, w)
      wx == NumSub(h[w][1], h[v][1])
      wy == NumSub(h[w][2], h[v][2])
      t0 == NumDiv(NumAdd(NumMul(NumSub(h[p][1], h[v][1]), wx),
                          NumMul(NumSub(h[p][2], h[v][2]), wy)), l)
      t == MathMax(Zero, MathMin(One, t0))
      c == Vector(h, NumAdd(h[v][1], NumMul(t, wx)), NumAdd(h[v][2], NumMul(t, wy)))
  IN  IF NumEq(l, Zero) THEN Normal(h, distSquared(h, p, v))
      ELSE IF c.tag # "ok" THEN c
      ELSE Normal(c.heap, distSquared(c.heap, p, c.val.addr))

distToSeg(h, p, v, w) ==
  LET d == distToSegSquared(h, p, v, w)
  IN  IF d.tag # "ok" THEN d ELSE Normal(d.heap, MathSqrt(d.val))

\* Vector(-vec[1], vec[0]).normalize(): the constructor returns a plain
\* array, an array has no property normalize, and calling the undefined
\* property throws a TypeError; the array built stays behind, unreferenced
perpendiculars(h, vec) ==
  LET plus90 == Vector(h, NumNeg(h[vec][2]), h[vec][1])
  IN  IF plus90.tag # "ok" THEN plus90 ELSE Throw(plus90.heap, "TypeError")

(***************************************************************************)
(* The values the callers pass.                                            *)
(***************************************************************************)
MaxInt == 1

MaxNear == 2

MaxCoord == 1

MaxLen == 3

\* the arrays a caller holds when it calls a constant accessor
MaxHeap == 2

\* the number int + nano * 10^-9, negated if neg
Dec(neg, int, nano) ==
  Fin(neg, BAdd(BShift(BFromNat(int), FracLimbs), BShift(BMulSmall(BFromNat(nano), 1000), 2)))

\* 1e200, whose square is above Number.MAX_VALUE
Huge == Fin(FALSE, BShift(<<1>>, FracLimbs + 50))

Half == Dec(FALSE, 0, 500000000)

NonFinite == {NaN, Inf(FALSE), Inf(TRUE)}

\* the numbers the constructor is tried on; the fractional parts, in units of
\* 10^-9, are below, at and above half a unit of Precision
Nums ==
  {Dec(neg, int, nano) : neg \in BOOLEAN, int \in 0..MaxInt, nano \in {0, 4, 5, 6, 25, 999999995}}
    \cup NonFinite \cup {Huge, NumNeg(Huge)}

\* numbers equals is tried on
NearFew == {Zero, Dec(FALSE, 0, 6), One, Two}

\* the components of the vectors the operations are tried on
Coords == {FromInt(i) : i \in -MaxCoord..MaxCoord} \cup {Half, Huge}

Vecs == {<<x, y>> : x \in Coords, y \in Coords}

Few == <<  <<Zero, Zero>>, <<One, Zero>>, <<One, Two>>, <<Huge, One>>  >>

FewVecs == {Few[i] : i \in 1..Len(Few)}

Scalars == {Zero, One, Two, Half, FromInt(-1), Huge, Inf(FALSE), NaN}

Thetas == {One, NumDiv(MathPI, Two), MathPI, NumNeg(NumDiv(MathPI, Two))}

\* the vector of whole components x and y
Pair(x, y) == <<FromInt(x), FromInt(y)>>

\* the arrays of the averaging test: three vectors and the list of them
Averaged == <<Pair(8, 7), Pair(7, 4), Pair(3, 1), <<Ref(1), Ref(2), Ref(3)>>  >>

\* the segments the distances are taken to, one of them without length,
\* and the points they are taken from
Segments ==
  {<<Pair(0, 0), Pair(2, 0)>>, <<Pair(1, 1), Pair(1, 1)>>, <<Pair(0, 0), Pair(1, 2)>>,
   <<<<FromInt(-1), Zero>>, <<Half, One>>  >>, <<Pair(1, -1), Pair(-1, 1)>>}

Points == {v \in Vecs : Huge \notin {v[1], v[2]}} \cup {Pair(3, 1)}

(***************************************************************************)
(* The calls.  A caller holds the arrays h, calls one exported function    *)
(* with addresses of them, and finds the completion in last.               *)
(***************************************************************************)
NoCall == [op |-> "none", args |-> <<>>, pre |-> <<>>, tag |-> "ok", val |-> Undefined]

Init ==
  /\ heap = <<>>
  /\ last = NoCall
  /\ pc = "idle"

\* the call of op with the arguments args, the caller's arrays being h,
\* completes as out
Call(op, args, h, out) ==
  /\ pc' = "returned"
  /\ heap' = out.heap
  /\ last' = [op |-> op, args |-> args, pre |-> h, tag |-> out.tag, val |-> out.val]

CallVectorSeparate(args, h, out) ==
  /\ pc = "idle"
  /\ Call("Vector", args, h, out)

CallVectorArray(args, h, out) ==
  /\ pc = "idle"
  /\ Call("Vector", args, h, out)

CallVectorObject(args, h, out) ==
  /\ pc = "idle"
  /\ Call("Vector", args, h, out)

CallEquals(args, h, out) ==
  /\ pc = "idle"
  /\ Call("equals", args, h, out)

CallEqualsStatic(args, h, out) ==
  /\ pc = "idle"
  /\ Call("Vector.equals", args, h, out)

CallEqualsEarlier(args, h, out) ==
  /\ pc = "idle"
  /\ Call("equals of src/test.js", args, h, out)

CallCopy(args, h, out) ==
  /\ pc = "idle"
  /\ Call("copy", args, h, out)

CallAdd(args, h, out) ==
  /\ pc = "idle"
  /\ Call("add", args, h, out)

CallSubtract(args, h, out) ==
  /\ pc = "idle"
  /\ Call("subtract", args, h, out)

CallMultiply(args, h, out) ==
  /\ pc = "idle"
  /\ Call("multiply", args, h, out)

CallDivide(args, h, out) ==
  /\ pc = "idle"
  /\ Call("divide", args, h, out)

CallNormalize(args, h, out) ==
  /\ pc = "idle"
  /\ Call("normalize", args, h, out)

CallClamp(args, h, out) ==
  /\ pc = "idle"
  /\ Call("clamp", args, h, out)

CallRotate(args, h, out) ==
  /\ pc = "idle"
  /\ Call("rotate", args, h, out)

CallOffset(args, h, out) ==
  /\ pc = "idle"
  /\ Call("offset", args, h, out)

CallInverse(args, h, out) ==
  /\ pc = "idle"
  /\ Call("inverse", args, h, out)

CallMidpoint(args, h, out) ==
  /\ pc = "idle"
  /\ Call("midpoint", args, h, out)

CallProj(args, h, out) ==
  /\ pc = "idle"
  /\ Call("proj", args, h, out)

CallAvg(args, h, out) ==
  /\ pc = "idle"
  /\ Call("avg", args, h, out)

CallMagnitude(args, h, out) ==
  /\ pc = "idle"
  /\ Call("magnitude", args, h, out)

CallMagSquared(args, h, out) ==
  /\ pc = "idle"
  /\ Call("magSquared", args, h, out)

CallAngle(args, h, out) ==
  /\ pc = "idle"
  /\ Call("angle", args, h, out)

CallDot(args, h, out) ==
  /\ pc = "idle"
  /\ Call("dot", args, h, out)

CallPerpendiculars(args, h, out) ==
  /\ pc = "idle"
  /\ Call("perpendiculars", args, h, out)

CallDistToSegSquared(args, h, out) ==
  /\ pc = "idle"
  /\ Call("distToSegSquared", args, h, out)

CallDistToSeg(args, h, out) ==
  /\ pc = "idle"
  /\ Call("distToSeg", args, h, out)

CallAngleBetween(args, h, out) ==
  /\ pc = "idle"
  /\ Call("angleBetween", args, h, out)

CallCross(args, h, out) ==
  /\ pc = "idle"
  /\ Call("cross", args, h, out)

\* The constant accessors take no arguments; a caller may call them while it
\* holds the arrays of earlier calls.
CallZero(args, h, out) ==
  /\ pc \in {"idle", "returned", "stored"}
  /\ last.op \in {"none", "copy", "zero", "up", "down", "left", "right"}
  /\ Len(h) < MaxHeap
  /\ Call("zero", args, h, out)

CallUp(args, h, out) ==
  /\ pc \in {"idle", "returned", "stored"}
  /\ last.op \in {"none", "copy", "zero", "up", "down", "left", "right"}
  /\ Len(h) < MaxHeap
  /\ Call("up", args, h, out)

CallDown(args, h, out) ==
  /\ pc \in {"idle", "returned", "stored"}
  /\ last.op \in {"none", "copy", "zero", "up", "down", "left", "right"}
  /\ Len(h) < MaxHeap
  /\ Call("down", args, h, out)

CallLeft(args, h, out) ==
  /\ pc \in {"idle", "returned", "stored"}
  /\ last.op \in {"none", "copy", "zero", "up", "down", "left", "right"}
  /\ Len(h) < MaxHeap
  /\ Call("left", args, h, out)

CallRight(args, h, out) ==
  /\ pc \in {"idle", "returned", "stored"}
  /\ last.op \in {"none", "copy", "zero", "up", "down", "left", "right"}
  /\ Len(h) < MaxHeap
  /\ Call("right", args, h, out)

\* the arrays the library returns are plain arrays: the caller writes x into
\* the component j of the pair a copy or a constant accessor returned
Store(j, x) ==
  /\ pc = "returned"
  /\ last.op \in {"copy", "zero", "up", "down", "left", "right"}
  /\ last.tag = "ok"
  /\ last.val.k = "ref"
  /\ heap' = [heap EXCEPT ![last.val.addr][j] = x]
  /\ pc' = "stored"
  /\ UNCHANGED last

\* the caller drops the arrays of the call
Return ==
  /\ pc \in {"returned", "stored"}
  /\ pc' = "idle"
  /\ heap' = <<>>
  /\ last' = NoCall

Next ==
  \/ \E x \in Nums, y \in Nums :
       CallVectorSeparate(<<x, y>>, <<>>,
         Vector(<<>>, x, y))
  \/ \E a \in {<<x, y>> : x \in Nums, y \in Nums}
               \cup {s \in UNION {[1..n -> {One, Dec(FALSE, 0, 4)}] : n \in 0..MaxLen} : Len(s) # 2} :
       CallVectorArray(<<Ref(1)>>, <<a>>,
         Vector(<<a>>, Ref(1), Undefined))
  \/ \E x \in Nums, y \in Nums :
       CallVectorObject(<<Obj(x, y)>>, <<>>,
         Vector(<<>>, Obj(x, y), Undefined))
  \/ \E ax \in {Dec(neg, int, nano) : neg \in BOOLEAN, int \in 0..MaxNear, nano \in {0, 4, 6}},
          ay \in NearFew, bx \in NearFew, by \in NearFew :
       CallEquals(<<Ref(1), Ref(2)>>, <<  <<ax, ay>>, <<bx, by>>  >>,
         equals(<<  <<ax, ay>>, <<bx, by>>  >>, 1, 2))
  \/ \E a \in FewVecs \cup {Pair(2, 1), Pair(1, 2)}, b \in FewVecs \cup {Pair(2, 1), Pair(1, 2)} :
       CallEqualsStatic(<<Ref(1), Ref(2)>>, <<a, b>>,
         equalsStatic(<<a, b>>, 1, 2))
  \/ \E a \in FewVecs \cup {Pair(2, 1), Pair(1, 2)}, b \in FewVecs \cup {Pair(2, 1), Pair(1, 2)} :
       CallEqualsEarlier(<<Ref(1), Ref(2)>>, <<a, b>>,
         equalsEarlier(<<a, b>>, 1, 2))
  \/ \E v \in Vecs :
       CallCopy(<<Ref(1)>>, <<v>>,
         copy(<<v>>, 1))
  \/ \E c \in {<<a, b>> : a \in Vecs, b \in FewVecs} \cup {<<Pair(1, 5), Pair(4, 3)>>}, j \in 1..2 :
       CallAdd(<<Ref(1), Ref(j)>>, c,
         add(c, 1, j))
  \/ \E c \in {<<a, b>> : a \in Vecs, b \in FewVecs} \cup {<<Pair(-2, -7), Pair(-4, -3)>>}, j \in 1..2 :
       CallSubtract(<<Ref(1), Ref(j)>>, c,
         subtract(c, 1, j))
  \/ \E v \in Vecs \cup {Pair(2, 5)}, scalar \in Scalars \cup {Three} :
       CallMultiply(<<Ref(1), scalar>>, <<v>>,
         multiply(<<v>>, 1, scalar))
  \/ \E v \in Vecs \cup {Pair(6, 15)}, scalar \in Scalars \cup {Three} :
       CallDivide(<<Ref(1), scalar>>, <<v>>,
         divide(<<v>>, 1, scalar))
  \/ \E v \in Vecs :
       CallNormalize(<<Ref(1)>>, <<v>>,
         normalize(<<v>>, 1))
  \/ \E v \in Vecs \cup {Pair(3, 3)}, limit \in {Zero, One, Two, Huge, NaN, FromInt(5), MathSqrt(Two)} :
       CallClamp(<<Ref(1), limit>>, <<v>>,
         clamp(<<v>>, 1, limit))
  \/ \E v \in Vecs \cup {Pair(3, 4), Pair(1, 1)}, around \in FewVecs \cup {Pair(0, 0), Pair(-1, -1)},
          theta \in Thetas :
       CallRotate(<<Ref(1), Ref(2), theta>>, <<v, around>>,
         rotate(<<v, around>>, 1, 2, theta))
  \/ \E v \in Vecs, mag \in {Two, Huge}, theta \in Thetas :
       CallOffset(<<Ref(1), mag, theta>>, <<v>>,
         offset(<<v>>, 1, mag, theta))
  \/ \E v \in Vecs :
       CallInverse(<<Ref(1)>>, <<v>>,
         inverse(<<v>>, 1))
  \/ \E a \in Vecs, b \in FewVecs, j \in 1..2 :
       CallMidpoint(<<Ref(1), Ref(j)>>, <<a, b>>,
         midpoint(<<a, b>>, 1, j))
  \/ \E c \in {<<a, b>> : a \in Vecs, b \in FewVecs} \cup {<<Pair(1, 2), Pair(3, 4)>>}, j \in 1..2 :
       CallProj(<<Ref(1), Ref(j)>>, c,
         proj(c, 1, j))
  \/ \E c \in {Append(Few, vectors) :
                  vectors \in UNION {[1..n -> {Ref(i) : i \in 1..Len(Few)}] : n \in 0..MaxLen}}
               \cup {Averaged} :
       CallAvg(<<Ref(Len(c))>>, c,
         avg(c, Len(c)))
  \/ \E v \in Vecs :
       CallMagnitude(<<Ref(1)>>, <<v>>,
         Normal(<<v>>, magnitude(<<v>>, 1)))
  \/ \E v \in Vecs :
       CallMagSquared(<<Ref(1)>>, <<v>>,
         Normal(<<v>>, magSquared(<<v>>, 1)))
  \/ \E v \in Vecs \cup {Pair(0, 4), Pair(-1, 0), Pair(0, -2), Pair(1, 0), Pair(0, 0),
                        Pair(2, 2), Pair(-2, 2), Pair(-2, -2), Pair(2, -2)} :
       CallAngle(<<Ref(1)>>, <<v>>,
         Normal(<<v>>, angle(<<v>>, 1)))
  \/ \E c \in {<<a, b>> : a \in Vecs, b \in FewVecs} \cup {<<Pair(5, 6), Pair(3, 4)>>}, j \in 1..2 :
       CallDot(<<Ref(1), Ref(j)>>, c,
         Normal(c, dot(c, 1, j)))
  \/ \E c \in {<<a, b>> : a \in Vecs, b \in FewVecs} \cup {<<Pair(5, 6), Pair(3, 4)>>}, j \in 1..2 :
       CallCross(<<Ref(1), Ref(j)>>, c,
         Normal(c, cross(c, 1, j)))
  \/ \E v \in Vecs :
       CallPerpendiculars(<<Ref(1)>>, <<v>>,
         perpendiculars(<<v>>, 1))
  \/ \E p \in Points \cup {<<Dec(FALSE, 0, 20), Zero>>}, s \in Segments :
       CallDistToSegSquared(<<Ref(1), Ref(2), Ref(3)>>, <<p, s[1], s[2]>>,
         distToSegSquared(<<p, s[1], s[2]>>, 1, 2, 3))
  \/ \E p \in Points, s \in Segments :
       CallDistToSeg(<<Ref(1), Ref(2), Ref(3)>>, <<p, s[1], s[2]>>,
         distToSeg(<<p, s[1], s[2]>>, 1, 2, 3))
  \/ \E c \in {<<a, b>> : a \in Vecs, b \in FewVecs} \cup {<<Pair(0, 0), Pair(0, 7)>>, <<Pair(5, 5), Pair(0, 7)>>} :
       CallAngleBetween(<<Ref(1), Ref(2)>>, c,
         angleBetween(c, 1, 2))
  \/ CallZero(<<>>, heap, zero(heap))
  \/ CallUp(<<>>, heap, up(heap))
  \/ CallDown(<<>>, heap, down(heap))
  \/ CallLeft(<<>>, heap, left(heap))
  \/ CallRight(<<>>, heap, right(heap))
  \/ \E j \in 1..2 :
       Store(j, FromInt(7))
  \/ Return

Spec == Init /\ [][Next]_vars

\* equals on doubles: numbers one and two steps of Precision apart, small
\* and near a quarter, and numbers that clean to the same value
Doubles ==
  {Dec64(FALSE, 0, nano) : nano \in {0, 4, 6, 30, 40, 50, 250000000, 250000010, 250000020}}
    \cup {Dec64(FALSE, 1, 0), Dec64(TRUE, 0, 250000010)}

Next64 ==
  \/ \E ax \in Doubles, bx \in Doubles, ay \in {Dec64(FALSE, 0, 0), Dec64(FALSE, 1, 0)},
          by \in {Dec64(FALSE, 0, 0), Dec64(FALSE, 1, 0)} :
       CallEquals(<<Ref(1), Ref(2)>>, <<  <<ax, ay>>, <<bx, by>>  >>,
         equals64(<<  <<ax, ay>>, <<bx, by>>  >>, 1, 2))
  \/ Return

Spec64 == Init /\ [][Next64]_vars

(***************************************************************************)
(* Properties.                                                             *)
(***************************************************************************)
Returned(op) == pc = "returned" /\ last.op = op

\* the shape the constructor was called with
Shape ==
  IF last.args[1].k = "ref" THEN "array"
  ELSE IF last.args[1].k = "obj" THEN "object"
  ELSE "separate"

\* the constructor was called with two components, in whichever shape
TwoGiven == Returned("Vector") /\ (Shape = "array" => Len(last.pre[1]) = 2)

\* the components the constructor was called with
Given ==
  IF Shape = "array" THEN last.pre[1]
  ELSE IF Shape = "object" THEN <<last.args[1].x, last.args[1].y>>
  ELSE last.args

\* the call ended in the error cls and left no array behind
Failed(cls) == last.tag = cls /\ last.val = Undefined /\ heap = last.pre

\* the call returned an array
ReturnedArray == last.tag = "ok" /\ last.val.k = "ref"

Result == heap[last.val.addr]

\* n is a whole number; n is a multiple of 10^-_p
Integral(n) == \A i \in 1..Min2(Len(n.mag), FracLimbs) : n.mag[i] = 0

OnGrid(n) == \A i \in 1..Min2(Len(n.mag), FracLimbs - _p \div 4) : n.mag[i] = 0

Sanitized(n) == n.k = "fin" /\ (Integral(n) \/ OnGrid(n))

Valid(v) == Len(v) = 2 /\ Sanitized(v[1]) /\ Sanitized(v[2])

Distance(a, b) == MathAbs(NumSub(a, b))

C2_ShapesAgree ==
  (TwoGiven /\ isFinite(Given[1]) /\ isFinite(Given[2]))
    => (ReturnedArray /\ Result = <<_clean(Given[1]).val, _clean(Given[2]).val>>)

C2_Witness ==
  /\ TwoGiven
  /\ Shape = "object"
  /\ Given = <<Dec(FALSE, 1, 6), Dec(TRUE, 0, 4)>>
  /\ ReturnedArray
  /\ Result = <<Dec(FALSE, 1, 10), Zero>>

\* r is x if x is whole, and else a multiple of 10^-8 at most half of
\* 10^-8 away from x
Nearest(x, r) ==
  IF Integral(x) THEN NumEq(r, x)
  ELSE OnGrid(r) /\ ~NumGt(NumAdd(Distance(r, x), Distance(r, x)), Precision)

Halfway(x, r) == ~Integral(x) /\ NumEq(NumAdd(Distance(r, x), Distance(r, x)), Precision)

\* C3 as the specification states it: clean(n) is n for a whole n and else
\* the nearest multiple of 10^-8, a value halfway between two multiples
\* going away from zero, whatever its sign.
C3_HalfAwayFromZero ==
  (Returned("Vector") /\ Shape = "separate" /\ isFinite(Given[1]) /\ isFinite(Given[2]))
    => /\ ReturnedArray
       /\ \A i \in 1..2 :
            /\ Nearest(Given[i], Result[i])
            /\ Halfway(Given[i], Result[i])
                 => NumGt(MathAbs(Result[i]), MathAbs(Given[i]))

\* C3, amended: clean(n) is n for a whole n and else the nearest multiple
\* of 10^-8, a value halfway between two multiples going up, towards
\* +Infinity: away from zero if positive, towards zero if negative.
C3_HalfUp ==
  (Returned("Vector") /\ Shape = "separate" /\ isFinite(Given[1]) /\ isFinite(Given[2]))
    => /\ ReturnedArray
       /\ \A i \in 1..2 :
            /\ Nearest(Given[i], Result[i])
            /\ Halfway(Given[i], Result[i]) => NumGt(Result[i], Given[i])

C3_Witness ==
  /\ Returned("Vector")
  /\ Shape = "separate"
  /\ Given = <<Dec(TRUE, 1, 5), Dec(FALSE, 1, 5)>>
  /\ ReturnedArray
  /\ Result = <<FromInt(-1), Dec(FALSE, 1, 10)>>

\* the absolute difference of the sanitized values is below 10^-8
Close(p, q) == NumLt(Distance(_clean(p).val, _clean(q).val), Precision)

C5_CloseImpliesEqual ==
  (/\ Returned("equals")
   /\ NumLt(Distance(last.pre[1][1], last.pre[2][1]), Precision)
   /\ NumLt(Distance(last.pre[1][2], last.pre[2][2]), Precision))
    => last.val = Bool(TRUE)

\* C6 as the specification states it: an array of two elements gives
\* <<clean(seq[0]), clean(seq[1])>>, and an array of any other length is
\* rejected with the error of the invalid shape, the ValueError the code
\* names, and no vector is returned.
C6_ArrayShape ==
  (Returned("Vector") /\ Shape = "array")
    => IF Len(last.pre[1]) = 2
         THEN (isFinite(Given[1]) /\ isFinite(Given[2]))
                => (ReturnedArray /\ Result = <<_clean(Given[1]).val, _clean(Given[2]).val>>)
         ELSE Failed("ValueError")

\* the operations that return a vector
VectorOps ==
  {"add", "subtract", "multiply", "divide", "normalize", "clamp", "rotate",
   "offset", "inverse", "midpoint", "proj", "avg", "copy"}

\* the array returned is none of the arrays the caller held before the call
Fresh == last.val.addr > Len(last.pre)

\* clamp was called with a magnitude that does not exceed the limit
ClampWithin == Returned("clamp") /\ ~NumGt(magnitude(last.pre, 1), last.args[2])

\* C7 as the specification states it: every operation that returns a
\* vector returns a newly built pair, not the caller's array, with finite
\* and sanitized components, on every branch.
C7_AlwaysRebuilt ==
  (pc = "returned" /\ last.op \in VectorOps /\ last.tag = "ok")
    => (last.val.k = "ref" /\ Fresh /\ Valid(Result))

\* C7, amended: every operation that returns a vector returns a newly
\* built pair with finite and sanitized components, except clamp when the
\* magnitude does not exceed the limit, which returns the caller's array
\* itself and builds nothing.
C7_RebuiltButClampWithin ==
  (pc = "returned" /\ last.op \in VectorOps /\ last.tag = "ok")
    => IF ClampWithin THEN last.val = last.args[1] /\ heap = last.pre
       ELSE last.val.k = "ref" /\ Fresh /\ Valid(Result)

C7_Witness ==
  /\ Returned("clamp")
  /\ last.pre = <<  <<One, FromInt(-1)>>  >>
  /\ last.args[2] = Two
  /\ last.tag = "ok"
  /\ last.val = Ref(1)

\* C8: after a call of any operation, also one that ends in an error, every
\* array the caller passed, vector or list, holds what it held before.
C8_ArgumentsUntouched ==
  pc = "returned"
    => /\ Len(heap) >= Len(last.pre)
       /\ \A i \in 1..Len(last.pre) : heap[i] = last.pre[i]

C8_Witness ==
  /\ Returned("avg")
  /\ last.pre[last.args[1].addr] = <<Ref(3), Ref(2), Ref(3)>>
  /\ last.tag = "ok"
  /\ Result = <<One, Dec(FALSE, 1, 333333330)>>
  /\ \A i \in 1..Len(Few) : heap[i] = Few[i]

\* C9: divide(v, 0) fails with the RangeError of _clean and returns nothing,
\* for every valid v, the zero vector and the vectors with one zero
\* component among them.
C9_DivideByZero ==
  (Returned("divide") /\ Valid(last.pre[1]) /\ IsZero(last.args[2]))
    => Failed("RangeError")

C9_Witness ==
  /\ Returned("divide")
  /\ last.pre[1] \in {<<Zero, Zero>>, <<One, Zero>>, <<Zero, FromInt(-1)>>}
  /\ IsZero(last.args[2])
  /\ Failed("RangeError")

\* C10 as the specification states it: normalize(v) never raises for a valid
\* v; it returns the zero vector for the zero vector and else
\* divide(v, magnitude(v)), whose magnitude is 1 within 10^-8.
C10_NormalizeUnit ==
  (Returned("normalize") /\ Valid(last.pre[1]))
    => /\ ReturnedArray
       /\ IF last.pre[1] = <<Zero, Zero>> THEN Result = <<Zero, Zero>>
          ELSE /\ LET d == divide(last.pre, 1, magnitude(last.pre, 1))
                  IN  d.tag = "ok" /\ Result = d.heap[d.val.addr]
               /\ NumLt(Distance(magnitude(heap, last.val.addr), One), Precision)

\* the quarter turn
HalfPi == NumDiv(MathPI, Two)

\* rotate called with finite components of moderate size
RotateModerate ==
  /\ Returned("rotate")
  /\ \A i \in 1..2, j \in 1..2 : NumLt(MathAbs(last.pre[i][j]), Huge)

C12_RotateClockwise ==
  (RotateModerate /\ last.args[3] = HalfPi)
    => LET v == last.pre[1]
           pivot == last.pre[2]
       IN  /\ ReturnedArray
           /\ pivot = Pair(0, 0) => Result = <<v[2], NumNeg(v[1])>>
           /\ (pivot = Pair(0, 0) /\ v = Pair(3, 4)) => Result = Pair(4, -3)
           /\ (pivot = Pair(0, 0) /\ v = Pair(1, 1)) => Result = Pair(1, -1)
           /\ (pivot = Pair(-1, -1) /\ v = Pair(3, 4)) => Result = Pair(4, -5)
           /\ (pivot = Pair(-1, -1) /\ v = Pair(1, 1)) => Result = Pair(1, -3)

\* the vector the completion out of an operation returned
Returns(out) == out.heap[out.val.addr]

\* C13 as the specification states it: for a non-zero valid v,
\* perpendiculars(v) completes without an error and returns a pair of
\* vectors, normalize((-v.y, v.x)) and normalize((v.y, -v.x)).
C13_PerpendicularsPair ==
  (Returned("perpendiculars") /\ Valid(last.pre[1]) /\ last.pre[1] # <<Zero, Zero>>)
    => LET v == last.pre[1]
           plus90 == normalize(<<  <<NumNeg(v[2]), v[1]>>  >>, 1)
           minus90 == normalize(<<  <<v[2], NumNeg(v[1])>>  >>, 1)
       IN  /\ ReturnedArray
           /\ Len(Result) = 2
           /\ Result[1].k = "ref" /\ heap[Result[1].addr] = Returns(plus90)
           /\ Result[2].k = "ref" /\ heap[Result[2].addr] = Returns(minus90)

TwoPi == NumMul(Two, MathPI)

\* k quarters of pi
Quarters(k) == NumDiv(NumMul(FromInt(k), MathPI), FromInt(4))

\* a lies strictly between lo and hi; a lies between them, the ends included
Inside(a, lo, hi) == NumGt(a, lo) /\ NumLt(a, hi)

Within(a, lo, hi) == NumGe(a, lo) /\ ~NumGt(a, hi)

\* the angle of a vector on an axis, and the angles of the tested diagonals
OnAxes(v, a) ==
  /\ (IsZero(v[1]) /\ IsZero(v[2])) => a = Zero
  /\ (NumGt(v[1], Zero) /\ IsZero(v[2])) => a = Zero
  /\ (IsZero(v[1]) /\ NumGt(v[2], Zero)) => a = Quarters(2)
  /\ (NumLt(v[1], Zero) /\ IsZero(v[2])) => a = MathPI
  /\ (IsZero(v[1]) /\ NumLt(v[2], Zero)) => a = Quarters(6)
  /\ v = Pair(2, 2) => NumLt(Distance(a, Quarters(1)), Precision)
  /\ v = Pair(-2, 2) => NumLt(Distance(a, Quarters(3)), Precision)
  /\ v = Pair(-2, -2) => NumLt(Distance(a, Quarters(5)), Precision)
  /\ v = Pair(2, -2) => NumLt(Distance(a, Quarters(7)), Precision)

\* the quadrant of a vector off the axes: 1 to 4, and 0 on an axis
QuadrantOf(v) ==
  IF IsZero(v[1]) \/ IsZero(v[2]) THEN 0
  ELSE IF NumGt(v[1], Zero) THEN (IF NumGt(v[2], Zero) THEN 1 ELSE 4)
  ELSE (IF NumGt(v[2], Zero) THEN 2 ELSE 3)

\* C14 as the specification states it: angle(v) is in [0, 2 pi); it is 0
\* for the zero vector, 0, pi/2, pi and 3 pi/2 on the axes, strictly inside
\* the quarter of its quadrant for a vector off the axes, and pi/4, 3 pi/4,
\* 5 pi/4 and 7 pi/4 on the diagonals.
C14_AngleStrictlyInQuadrant ==
  (Returned("angle") /\ Valid(last.pre[1]))
    => LET v == last.pre[1]
           a == last.val
           q == QuadrantOf(v)
       IN  /\ last.tag = "ok"
           /\ NumGe(a, Zero) /\ NumLt(a, TwoPi)
           /\ OnAxes(v, a)
           /\ q > 0 => Inside(a, Quarters(2 * (q - 1)), Quarters(2 * q))

\* What holds of angle: the same with the ends of the quarters included,
\* which a vector next to an axis reaches in the arithmetic of the numbers.
AngleInClosedQuadrant ==
  (Returned("angle") /\ Valid(last.pre[1]))
    => LET v == last.pre[1]
           a == last.val
           q == QuadrantOf(v)
       IN  /\ last.tag = "ok"
           /\ NumGe(a, Zero) /\ ~NumGt(a, TwoPi)
           /\ OnAxes(v, a)
           /\ q > 0 => Within(a, Quarters(2 * (q - 1)), Quarters(2 * q))

\* clamp called with a valid vector and a finite limit that is not negative
ClampCalled ==
  /\ Returned("clamp")
  /\ Valid(last.pre[1])
  /\ isFinite(last.args[2]) /\ NumGe(last.args[2], Zero)

\* clamp returns v with its components if the magnitude is within the limit
\* and Polar(limit, angle(v)) if it is not
ClampByCase ==
  ClampCalled
    => IF ClampWithin THEN ReturnedArray /\ Result = last.pre[1]
       ELSE LET p == Polar(last.pre, last.args[2], angle(last.pre, 1))
            IN  p.tag = "ok" /\ ReturnedArray /\ Result = Returns(p)

\* the directions of v and r are the same: the angles are less than 10^-8
\* apart, or less than that from a whole turn apart
SameDirection(v, r) ==
  LET d == Distance(angle(<<v>>, 1), angle(<<r>>, 1))
  IN  NumLt(d, Precision) \/ NumLt(Distance(d, TwoPi), Precision)

ClampKeepsDirection ==
  (ClampCalled /\ ReturnedArray /\ Result # <<Zero, Zero>>)
    => SameDirection(last.pre[1], Result)

\* C15 as the specification states it: for a valid v and a limit >= 0,
\* clamp(v, limit) returns v unchanged when magnitude(v) <= limit and
\* Polar(limit, angle(v)) when magnitude(v) > limit; the magnitude of what it
\* returns does not exceed limit and its direction is that of v.
C15_ClampLimits ==
  /\ ClampByCase
  /\ ClampKeepsDirection
  /\ (ClampCalled /\ ReturnedArray)
       => ~NumGt(magnitude(heap, last.val.addr), last.args[2])

\* the magnitude of what clamp returns exceeds the limit by less than 10^-8
\* for vectors and limits of moderate size
ClampNearLimit ==
  (ClampCalled /\ ReturnedArray /\ NumLt(last.args[2], Huge)
     /\ \A j \in 1..2 : NumLt(MathAbs(last.pre[1][j]), Huge))
    => NumLt(magnitude(heap, last.val.addr), NumAdd(last.args[2], Precision))

\* the list avg was called with, and the sum of the component j of its
\* first i vectors
Listed == last.pre[last.args[1].addr]

RECURSIVE SumOf(_, _)
SumOf(j, i) ==
  IF i = 0 THEN Zero ELSE NumAdd(SumOf(j, i - 1), last.pre[Listed[i].addr][j])

\* avg of a list that is not empty returns the sum of the list, component
\* by component, divided by the number of vectors; avg((8,7),(7,4),(3,1)) is
\* (6,4)
AvgOfSome ==
  (Returned("avg") /\ Len(Listed) > 0)
    => /\ ReturnedArray
       /\ Result = <<_clean(NumDiv(SumOf(1, Len(Listed)), FromInt(Len(Listed)))).val,
                     _clean(NumDiv(SumOf(2, Len(Listed)), FromInt(Len(Listed)))).val>>
       /\ last.pre = Averaged => Result = Pair(6, 4)

Along(h) ==
  NumDiv(dot(<<  <<NumSub(h[1][1], h[2][1]), NumSub(h[1][2], h[2][2])>>,
                 <<NumSub(h[3][1], h[2][1]), NumSub(h[3][2], h[2][2])>>  >>, 1, 2),
         distSquared(h, 2, 3))

\* the squared distance from p to the segment from v to w, for h = <<p, v, w>>:
\* to v, to w, or to the foot of the perpendicular, by Pythagoras
ToSegment(h) ==
  IF h[2] = h[3] \/ ~NumGt(Along(h), Zero) THEN distSquared(h, 1, 2)
  ELSE IF NumGe(Along(h), One) THEN distSquared(h, 1, 3)
  ELSE NumSub(distSquared(h, 1, 2),
              NumMul(NumMul(Along(h), Along(h)), distSquared(h, 2, 3)))

ZeroToAngleBetween ==
  /\ Returned("angleBetween")
  /\ Valid(last.pre[1]) /\ Valid(last.pre[2])
  /\ <<Zero, Zero>> \in {last.pre[1], last.pre[2]}

ZeroToProj ==
  /\ Returned("proj")
  /\ Valid(last.pre[1])
  /\ last.pre[last.args[2].addr] = <<Zero, Zero>>

ZeroToDivide == Returned("divide") /\ Valid(last.pre[1]) /\ IsZero(last.args[2])

\* C18 as the specification states it: the three of them end in the error
\* of an invalid number, and none returns NaN without an error.
C18_OnePolicy ==
  (ZeroToAngleBetween \/ ZeroToProj \/ ZeroToDivide)
    => (last.tag = "RangeError" /\ last.val = Undefined)

\* C18, amended: proj onto the zero vector and divide by 0 end in the
\* error of an invalid number, and angleBetween with a vector of magnitude
\* zero returns NaN to the caller without an error.
C18_TwoPolicies ==
  /\ (ZeroToProj \/ ZeroToDivide) => (last.tag = "RangeError" /\ last.val = Undefined)
  /\ ZeroToAngleBetween => (last.tag = "ok" /\ last.val = NaN)

C18_Witness ==
  /\ ZeroToAngleBetween
  /\ last.pre = <<Pair(0, 0), Pair(0, 7)>>
  /\ last.tag = "ok"
  /\ last.val = NaN

\* the angle between (5,5) and (0,7) is a quarter of pi, as tested
AngleBetweenTested ==
  (Returned("angleBetween") /\ last.pre = <<Pair(5, 5), Pair(0, 7)>>)
    => NumLt(Distance(last.val, Quarters(1)), Precision)

\* the call returned what the constructor returns for the components x and y
AsVector(x, y) ==
  LET c == Vector(<<>>, x, y)
  IN  /\ last.tag = c.tag
      /\ IF c.tag = "ok" THEN ReturnedArray /\ Fresh /\ Result = Returns(c)
          ELSE last.val = Undefined

\* C19: for valid a and b and a finite s, not 0 for divide, add, subtract,
\* multiply and divide return what the constructor returns for the sums, the
\* differences, the products and the quotients of the components;
\* add((1,5),(4,3)) = (5,8), subtract((-2,-7),(-4,-3)) = (2,-4),
\* multiply((2,5),3) = (6,15) and divide((6,15),3) = (2,5).
C19_ComponentWise ==
  (pc = "returned" /\ last.op \in {"add", "subtract", "multiply", "divide"} /\ Valid(last.pre[1]))
    => LET a == last.pre[1]
           b == last.pre[last.args[2].addr]
           s == last.args[2]
       IN  /\ (last.op = "add" /\ Valid(b))
                => /\ AsVector(NumAdd(a[1], b[1]), NumAdd(a[2], b[2]))
                   /\ (a = Pair(1, 5) /\ b = Pair(4, 3)) => Result = Pair(5, 8)
           /\ (last.op = "subtract" /\ Valid(b))
                => /\ AsVector(NumSub(a[1], b[1]), NumSub(a[2], b[2]))
                   /\ (a = Pair(-2, -7) /\ b = Pair(-4, -3)) => Result = Pair(2, -4)
           /\ (last.op = "multiply" /\ isFinite(s))
                => /\ AsVector(NumMul(a[1], s), NumMul(a[2], s))
                   /\ (a = Pair(2, 5) /\ s = Three) => Result = Pair(6, 15)
           /\ (last.op = "divide" /\ isFinite(s) /\ ~IsZero(s))
                => /\ AsVector(NumDiv(a[1], s), NumDiv(a[2], s))
                   /\ (a = Pair(6, 15) /\ s = Three) => Result = Pair(2, 5)

C19_Witness ==
  /\ Returned("subtract")
  /\ last.pre = <<Pair(-2, -7), Pair(-4, -3)>>
  /\ last.args[2] = Ref(2)
  /\ ReturnedArray
  /\ Result = Pair(2, -4)

ProductCalled(op) ==
  /\ Returned(op)
  /\ Valid(last.pre[1]) /\ Valid(last.pre[last.args[2].addr])

\* C21: for valid a and b, dot(a, b) is a.x*b.x + a.y*b.y and cross(a, b) is
\* a.x*b.y - a.y*b.x, so dot(a, b) is dot(b, a) and cross(a, b) is
\* -cross(b, a); for a = (5,6) and b = (3,4) they are 5*3 + 6*4 and
\* 4*5 - 6*3, the values the tests expect.
C21_Products ==
  /\ ProductCalled("dot")
       => LET a == last.pre[1]
              b == last.pre[last.args[2].addr]
          IN  /\ last.tag = "ok"
              /\ last.val = NumAdd(NumMul(a[1], b[1]), NumMul(a[2], b[2]))
              /\ last.val = dot(<<b, a>>, 1, 2)
              /\ (a = Pair(5, 6) /\ b = Pair(3, 4)) => last.val = FromInt(5 * 3 + 6 * 4)
  /\ ProductCalled("cross")
       => LET a == last.pre[1]
              b == last.pre[last.args[2].addr]
          IN  /\ last.tag = "ok"
              /\ last.val = NumSub(NumMul(a[1], b[2]), NumMul(a[2], b[1]))
              /\ last.val = NumNeg(cross(<<b, a>>, 1, 2))
              /\ (a = Pair(5, 6) /\ b = Pair(3, 4)) => last.val = FromInt(4 * 5 - 6 * 3)

C21_Witness ==
  /\ Returned("cross")
  /\ last.pre = <<Pair(5, 6), Pair(3, 4)>>
  /\ last.args[2] = Ref(2)
  /\ last.val = Two

\* the products of (5,6) and (3,4) were taken
Worked(op) ==
  Returned(op) /\ last.pre = <<Pair(5, 6), Pair(3, 4)>> /\ last.args[2] = Ref(2)

\* C22 as the specification states it: dot((5,6),(3,4)) = 39 and
\* cross((5,6),(3,4)) = -2.
C22_WorkedValues ==
  /\ Worked("dot") => last.val = FromInt(39)
  /\ Worked("cross") => last.val = FromInt(-2)

\* C22, amended: dot((5,6),(3,4)) = 39 and cross((5,6),(3,4)) = 2.
C22_WorkedCrossPositive ==
  /\ Worked("dot") => last.val = FromInt(39)
  /\ Worked("cross") => last.val = FromInt(2)

C22_Witness ==
  /\ Worked("cross")
  /\ last.tag = "ok"
  /\ last.val = FromInt(2)

Alike(r1, r2) ==
  /\ r1.tag = r2.tag
  /\ r1.tag = "ok" => equals(<<Returns(r1), Returns(r2)>>, 1, 2).val = Bool(TRUE)

\* the vectors a and b give alike results in the operations that return a
\* vector, with the same other arguments, and the same result in equals
Interchangeable(a, b) ==
  /\ \A s \in {Two, Half, Huge} :
        /\ Alike(multiply(<<a>>, 1, s), multiply(<<b>>, 1, s))
        /\ Alike(divide(<<a>>, 1, s), divide(<<b>>, 1, s))
  /\ \A cx \in NearFew, cy \in {Zero, One} :
        LET c == <<cx, cy>>
        IN  /\ Alike(add(<<a, c>>, 1, 2), add(<<b, c>>, 1, 2))
            /\ Alike(subtract(<<c, a>>, 1, 2), subtract(<<c, b>>, 1, 2))
            /\ Alike(midpoint(<<a, c>>, 1, 2), midpoint(<<b, c>>, 1, 2))
            /\ equals(<<a, c>>, 1, 2).val = equals(<<b, c>>, 1, 2).val
  /\ Alike(copy(<<a>>, 1), copy(<<b>>, 1))
  /\ Alike(inverse(<<a>>, 1), inverse(<<b>>, 1))
  /\ Alike(normalize(<<a>>, 1), normalize(<<b>>, 1))

\* C24 as the specification states it: pairs a and b of finite numbers that
\* equals reports as equal are interchangeable in every operation.
C24_EqualInterchangeable ==
  (Returned("equals") /\ last.val = Bool(TRUE))
    => Interchangeable(last.pre[1], last.pre[2])

\* an implementation of equals returned
EqualsReturned == pc = "returned" /\ last.op \in {"equals", "Vector.equals", "equals of src/test.js"}

\* C25: every implementation of equals in the source, the module and the
\* class of src/Vector.js and the module of src/test.js, compares a with b
\* component by component: each returns false for equals((2,1),(1,2)) and
\* true for equals((1,2),(1,2)).
C25_EveryEqualsComponentWise ==
  EqualsReturned =>
    /\ last.pre = <<Pair(2, 1), Pair(1, 2)>> => (last.tag = "ok" /\ last.val = Bool(FALSE))
    /\ last.pre = <<Pair(1, 2), Pair(1, 2)>> => (last.tag = "ok" /\ last.val = Bool(TRUE))

\* C27: for valid vectors p, v and w, distToSegSquared(p, v, w) does not
\* exceed the squared distance from p to either end of the segment.
C27_WithinEndpoints ==
  (Returned("distToSegSquared") /\ \A i \in 1..3 : Valid(last.pre[i]))
    => /\ last.tag = "ok"
       /\ ~NumGt(last.val, distSquared(last.pre, 1, 2))
       /\ ~NumGt(last.val, distSquared(last.pre, 1, 3))

\* the pair the constant accessor op returns
ConstantOf(op) ==
  CASE op = "zero" -> Pair(0, 0)
    [] op = "up" -> Pair(0, 1)
    [] op = "down" -> Pair(0, -1)
    [] op = "left" -> Pair(-1, 0)
    [] op = "right" -> Pair(1, 0)

\* C28: zero, up, down, left and right return (0,0), (0,1), (0,-1), (-1,0)
\* and (1,0) on every call: a new pair each time, whatever the caller did to
\* the pairs returned before, which the call leaves as they are.
C28_ConstantAccessors ==
  \A op \in {"zero", "up", "down", "left", "right"} :
    Returned(op) =>
      /\ ReturnedArray
      /\ Fresh
      /\ Result = ConstantOf(op)
      /\ SubSeq(heap, 1, Len(last.pre)) = last.pre

\* up is called after the first component of the pair an earlier call of up
\* returned was set to 7
C28_Witness ==
  /\ Returned("up")
  /\ last.pre = <<  <<FromInt(7), One>>  >>
  /\ heap = <<  <<FromInt(7), One>>, Pair(0, 1)  >>

\* equals on doubles reports u and v as equal
Equal64(u, v) == equals64(<<u, v>>, 1, 2).val = Bool(TRUE)

\* C26: equals is an equivalence relation on pairs of finite numbers: it is
\* reflexive and symmetric, and it is transitive, as it holds exactly when
\* the cleaned components of a and of b are the same.
C26_Equivalence ==
  Returned("equals") =>
    LET a == last.pre[1]
        b == last.pre[2]
    IN  /\ last.tag = "ok"
        /\ Equal64(a, a)
        /\ Equal64(b, a) <=> last.val = Bool(TRUE)
        /\ last.val = Bool(TRUE)
             <=> \A i \in 1..2 : _clean64(a[i]).val = _clean64(b[i]).val
        /\ \A cx \in Doubles :
             (last.val = Bool(TRUE) /\ Equal64(b, <<cx, b[2]>>)) => Equal64(a, <<cx, b[2]>>)

====
